---------------------------- MODULE Spec2Model ----------------------------
(***************************************************************************)
(* A model of "Lab 2/bar.py": the planar frame element Bar (construction,  *)
(* angle, rotation matrices, stiffness matrix, equivalent load vector,     *)
(* stress recovery) and the discretizer discretizateBar.                   *)
(*                                                                         *)
(* Numbers.  The code computes in IEEE doubles; the model computes in      *)
(* exact integers and fractions.  Node coordinates are integers and the    *)
(* two nodes are always an integer distance apart, so that                 *)
(* np.linalg.norm is an exact integer square root.  An angle is kept as    *)
(* the triple [cx, sy, n] with cos = cx/n and sin = sy/n.  A matrix or a   *)
(* vector is kept as integer numerators over one common denominator.       *)
(* A division by a zero length, which numpy answers with inf/nan and a     *)
(* warning instead of an exception, gives a value marked finite = FALSE.   *)
(*                                                                         *)
(* Python attributes.  attrs is the set of attributes that have been       *)
(* assigned on self; reading an attribute outside it raises AttributeError.*)
(***************************************************************************)
EXTENDS Integers, Sequences, FiniteSets, TLC

\* ------------------------------------------------------------------ bounds
MaxLeft  == 1    \* left node coordinates range over 0..MaxLeft
MaxCoord == 4    \* right node coordinates range over -MaxCoord..MaxCoord
MaxProp  == 2    \* E, A, I range over -1..MaxProp
MaxLoad  == 1    \* constant load densities range over -MaxLoad..MaxLoad
MaxN     == 3    \* n_elements ranges over 1..MaxN
MaxReach == 4    \* in the recovery runs the right node moves over (0..MaxReach)^2

VARIABLES
    pc,                \* position inside the running function
    err,               \* the exception that ended it, or "none"
    attrs,             \* attributes assigned on self so far
    left_pos, right_pos,   \* Node.position of self.left_node / self.right_node
    E, A, I,           \* self.E, self.A, self.I
    loads,             \* the four load densities passed to __init__ (constants)
    L, Li,             \* self.L, self.Li
    angle,             \* self.angle
    stiffness_matrix,  \* self.stiffness_matrix
    rotation_matrix_6x6, rotation_matrix_3x3,
    force_vector,      \* self.force_vector
    N, sigma,          \* self.N, self.sigma (fractions)
    op,                \* the last operation performed on the Bar
    ret,               \* what the last accessor returned
    built_at,          \* node positions when __init__ ran
    recovered,         \* whether setBarNormalAndStress has been called
    decomposed_q, total_q, local_vector, self_vector, rotated_force_vector,
    n_elements, nodes, bars, i

vars == << pc, err, attrs, left_pos, right_pos, E, A, I, loads, L, Li, angle,
           stiffness_matrix, rotation_matrix_6x6, rotation_matrix_3x3,
           force_vector, N, sigma, op, ret, built_at, recovered,
           decomposed_q, total_q, local_vector, self_vector,
           rotated_force_vector, n_elements, nodes, bars, i >>

barVars  == << attrs, L, Li, angle, stiffness_matrix, rotation_matrix_6x6,
               rotation_matrix_3x3, force_vector, N, sigma >>
argVars  == << E, A, I, loads >>
loadVars == << decomposed_q, total_q, local_vector, self_vector,
               rotated_force_vector >>
discVars == << n_elements, nodes, bars, i >>

\* ------------------------------------------------------------- arithmetic
Abs(x) == IF x < 0 THEN -x ELSE x
Sign(x) == IF x < 0 THEN -1 ELSE IF x > 0 THEN 1 ELSE 0

RECURSIVE Gcd(_, _)
Gcd(a, b) == IF b = 0 THEN Abs(a) ELSE Gcd(b, a % b)

IsSquare(m) == \E r \in 0..m : r * r = m
Isqrt(m) == CHOOSE r \in 0..m : r * r = m

\* a fraction num/den in lowest terms with den > 0
Frac(num, den) ==
    LET g == Gcd(Abs(num), Abs(den))
        sg == IF den < 0 THEN -1 ELSE 1
    IN  << sg * (num \div g), sg * (den \div g) >>
Zero == << 0, 1 >>

Zeros6 == << 0, 0, 0, 0, 0, 0 >>
NoMatrix == [num |-> << >>, den |-> 1, finite |-> TRUE]
NoAngle == [cx |-> 1, sy |-> 0, n |-> 1]
NoVector == [num |-> Zeros6, den |-> 1]
NoLoads == [gx |-> 0, gy |-> 0, lx |-> 0, ly |-> 0]
None == << "None" >>

\* -------------------------------------------------------------- geometry
\* np.linalg.norm(left.position - right.position), exact on the inputs used
calculateBarLength(lp, rp) ==
    Isqrt((lp[1] - rp[1]) * (lp[1] - rp[1]) + (lp[2] - rp[2]) * (lp[2] - rp[2]))

IntegerDistance(lp, rp) ==
    IsSquare((lp[1] - rp[1]) * (lp[1] - rp[1]) + (lp[2] - rp[2]) * (lp[2] - rp[2]))

\* np.arctan(t) for t = dy/dx, dx # 0: the angle in (-pi/2, pi/2) with
\* tangent t, i.e. the direction of (|dx|, sign(dx)*dy)
arctan(dy, dx) ==
    LET h == Isqrt(dx * dx + dy * dy)
        g == Gcd(Gcd(Abs(dx), Abs(dy)), h)
    IN  [cx |-> Abs(dx) \div g, sy |-> (Sign(dx) * dy) \div g, n |-> h \div g]

HalfPi == [cx |-> 0, sy |-> 1, n |-> 1]
MinusHalfPi == [cx |-> 0, sy |-> -1, n |-> 1]

getBarAngle(lp, rp) ==
    LET dx == rp[1] - lp[1]
        dy == rp[2] - lp[2]
    IN  IF dx = 0
        THEN IF dy > 0 THEN HalfPi ELSE MinusHalfPi
        ELSE arctan(dy, dx)

\* ------------------------------------------------------ rotation matrices
calculateRotationMatrix6(ang) ==
    LET c == ang.cx
        s == ang.sy
        u == ang.n
    IN  [num |-> << << c, -s, 0, 0, 0, 0 >>,
                    << s,  c, 0, 0, 0, 0 >>,
                    << 0,  0, u, 0, 0, 0 >>,
                    << 0,  0, 0, c, -s, 0 >>,
                    << 0,  0, 0, s,  c, 0 >>,
                    << 0,  0, 0, 0,  0, u >> >>,
         den |-> u, finite |-> TRUE]

calculateRotationMatrix3(ang) ==
    LET c == ang.cx
        s == ang.sy
        u == ang.n
    IN  [num |-> << << c, -s, 0 >>,
                    << s,  c, 0 >>,
                    << 0,  0, u >> >>,
         den |-> u, finite |-> TRUE]


\* ------------------------------------------------------- stiffness matrix
\* line 268, mu = self.A * self.L**2 / 2 * self.I, evaluated left to right:
\* ((A * L**2) / 2) * I.  mu2 is twice that value, to stay in the integers.
mu2(A_, I_, L_) == ((A_ * L_ * L_) * I_)

\* line 269, k = 2 * E * I / L**3: the numerator; the denominator is L**3
kNum(E_, I_) == 2 * E_ * I_

\* lines 271-278, k * np.array([...]).  With c = cx/n and s = sy/n every entry
\* is k * (m * mu + r) / n**2 for integers m and r, and T(m, r) is its
\* numerator over the common denominator L**3 * n**2.
StiffnessArray(E_, A_, I_, L_, ang) ==
    LET c == ang.cx
        s == ang.sy
        u == ang.n
        T(m, r) == (kNum(E_, I_) \div 2) * mu2(A_, I_, L_) * m + kNum(E_, I_) * r
        mc2_6s2 == T(c * c, 6 * s * s)          \* mu * c**2 + 6 * s**2
        m6cs    == T(c * s, -6 * c * s)         \* (mu - 6) * c * s
        ms2_6c2 == T(s * s, 6 * c * c)          \* mu * s**2 + 6 * c**2
        Ls3     == T(0, 3 * L_ * s * u)         \* 3 * L * s
        Lc3     == T(0, 3 * L_ * c * u)         \* 3 * L * c
        LL      == T(0, L_ * L_ * u * u)        \* L**2
    IN  << << mc2_6s2, m6cs, -Ls3, -mc2_6s2, -m6cs, -Ls3 >>,
           << m6cs, ms2_6c2, Lc3, -m6cs, -ms2_6c2, Lc3 >>,
           << -Ls3, Lc3, 2 * LL, Ls3, -Lc3, LL >>,
           << -mc2_6s2, -m6cs, Ls3, mc2_6s2, m6cs, Ls3 >>,
           << -m6cs, -ms2_6c2, -Lc3, m6cs, ms2_6c2, -Lc3 >>,
           << -Ls3, Lc3, LL, Ls3, -Lc3, 2 * LL >> >>

\* a slip in one off-diagonal entry: K[0][2] written 3*L*s instead of -3*L*s
calculateStiffnessMatrix_asym(E_, A_, I_, L_, ang) ==
    [num |-> [StiffnessArray(E_, A_, I_, L_, ang) EXCEPT ![1][3] = -@],
     den |-> L_ * L_ * L_ * ang.n * ang.n,
     finite |-> L_ # 0]

\* L = 0 makes k = 2*E*I/0.0, which numpy evaluates to inf or nan
calculateStiffnessMatrix(E_, A_, I_, L_, ang) ==
    [num |-> StiffnessArray(E_, A_, I_, L_, ang),
     den |-> L_ * L_ * L_ * ang.n * ang.n,
     finite |-> L_ # 0]

\* ------------------------------------------------------------ load vector
rotateTensor(R, v) ==
    [num |-> [r \in 1..6 |->
                 R.num[r][1] * v.num[1] + R.num[r][2] * v.num[2]
               + R.num[r][3] * v.num[3] + R.num[r][4] * v.num[4]
               + R.num[r][5] * v.num[5] + R.num[r][6] * v.num[6]],
     den |-> R.den * v.den]

\* lines 238-239; the values are numerators over ang.n
decomposed_q_x(gx, gy, ang) == gx * ang.cx - gy * ang.sy
decomposed_q_y(gx, gy, ang) == gx * ang.sy + gy * ang.cx

\* lines 241-242; numerators over ang.n
total_q_x(lx, dqx, ang) == lx * ang.n + dqx
total_q_y(ly, dqy, ang) == ly * ang.n + dqy

\* lines 229-236 and 244-249: quad(q * phi, 0, L) for a constant density q.
\* The integrals of phi_5, phi_1, phi_2, phi_6, phi_3, phi_4 over [0, L] are
\* L/2, L/2, L**2/12, L/2, L/2, L**2/12; numerators over 12 * ang.n.
IntegratedLoads(tqx, tqy, L_, ang) ==
    [num |-> << 6 * tqx * L_, 6 * tqy * L_, tqy * L_ * L_,
                6 * tqx * L_, 6 * tqy * L_, tqy * L_ * L_ >>,
     den |-> 12 * ang.n]

\* The attributes of self that calculateForceVector and its lambdas read or
\* index (lines 229-253)
ForceVectorReads ==
    { "L", "angle", "global_q_x", "global_q_y", "local_q_x", "local_q_y",
      "force_vector", "rotation_matrix_6x6", "rotation_matrix_3x3",
      "left_node", "right_node" }

\* line 225 and 251-257: the vector that is rotated is the local array
\* np.zeros(6), not self.force_vector; the nodes carry no applied force
calculateForceVector(R6) == rotateTensor(R6, NoVector)

\* ------------------------------------------------------------ Bar.__init__
PropVals == -1..MaxProp
LeftPositions == (0..MaxLeft) \X (0..MaxLeft)
RightPositions == (-MaxCoord..MaxCoord) \X (-MaxCoord..MaxCoord)
UnitLoads == [gx |-> 0, gy |-> 1, lx |-> 0, ly |-> 0]

Idle ==
    /\ op = "none" /\ ret = None /\ built_at = << << 0, 0 >>, << 0, 0 >> >>
    /\ recovered = FALSE
    /\ decomposed_q = << 0, 0 >> /\ total_q = << 0, 0 >>
    /\ local_vector = NoVector /\ self_vector = NoVector
    /\ rotated_force_vector = NoVector
    /\ n_elements = 1 /\ nodes = << >> /\ bars = << >> /\ i = 0

Unbuilt ==
    /\ attrs = {} /\ L = 0 /\ Li = 0 /\ angle = NoAngle
    /\ stiffness_matrix = NoMatrix
    /\ rotation_matrix_6x6 = NoMatrix /\ rotation_matrix_3x3 = NoMatrix
    /\ force_vector = NoVector /\ N = Zero /\ sigma = Zero

Init ==
    /\ pc = "init_100" /\ err = "none"
    /\ left_pos \in LeftPositions /\ right_pos \in RightPositions
    /\ IntegerDistance(left_pos, right_pos)
    /\ E \in PropVals /\ A \in PropVals /\ I \in PropVals
    /\ loads \in {NoLoads, UnitLoads}
    /\ Unbuilt
    /\ Idle

others == << op, ret, built_at, recovered, loadVars, discVars >>

\* lines 100-104
StoreArguments ==
    /\ pc = "init_100"
    /\ attrs' = attrs \cup {"left_node", "right_node", "E", "A", "I"}
    /\ pc' = "init_105"
    /\ UNCHANGED << err, left_pos, right_pos, argVars, L, Li, angle,
                    stiffness_matrix, rotation_matrix_6x6, rotation_matrix_3x3,
                    force_vector, N, sigma, others >>

\* lines 105-106
StoreLength ==
    /\ pc = "init_105"
    /\ L' = calculateBarLength(left_pos, right_pos)
    /\ Li' = calculateBarLength(left_pos, right_pos)
    /\ attrs' = attrs \cup {"L", "Li"}
    /\ pc' = "init_107"
    /\ UNCHANGED << err, left_pos, right_pos, argVars, angle,
                    stiffness_matrix, rotation_matrix_6x6, rotation_matrix_3x3,
                    force_vector, N, sigma, others >>

\* line 107
StoreAngle ==
    /\ pc = "init_107"
    /\ angle' = getBarAngle(left_pos, right_pos)
    /\ attrs' = attrs \cup {"angle"}
    /\ pc' = "init_108"
    /\ UNCHANGED << err, left_pos, right_pos, argVars, L, Li,
                    stiffness_matrix, rotation_matrix_6x6, rotation_matrix_3x3,
                    force_vector, N, sigma, others >>

\* line 108
StoreStiffnessMatrix ==
    /\ pc = "init_108"
    /\ stiffness_matrix' = calculateStiffnessMatrix(E, A, I, L, angle)
    /\ attrs' = attrs \cup {"stiffness_matrix"}
    /\ pc' = "init_109"
    /\ UNCHANGED << err, left_pos, right_pos, argVars, L, Li, angle,
                    rotation_matrix_6x6, rotation_matrix_3x3,
                    force_vector, N, sigma, others >>

\* lines 109-111
StoreRotationMatrices ==
    /\ pc = "init_109"
    /\ rotation_matrix_6x6' = calculateRotationMatrix6(angle)
    /\ rotation_matrix_3x3' = calculateRotationMatrix3(angle)
    /\ attrs' = attrs \cup {"global_loads", "local_loads",
                            "rotation_matrix_6x6", "rotation_matrix_3x3"}
    /\ pc' = "init_112"
    /\ UNCHANGED << err, left_pos, right_pos, argVars, L, Li, angle,
                    stiffness_matrix, force_vector, N, sigma, others >>

\* lines 112-114.  calculateForceVector reads self.local_q_x, self.global_q_x,
\* ... and indexes self.force_vector; an attribute that was never assigned
\* raises AttributeError and __init__ ends there.
StoreForceVector ==
    /\ pc = "init_112"
    /\ IF ForceVectorReads \subseteq attrs
       THEN /\ force_vector' = calculateForceVector(rotation_matrix_6x6)
            /\ N' = Zero /\ sigma' = Zero
            /\ attrs' = attrs \cup {"force_vector", "N", "sigma"}
            /\ pc' = "done" /\ err' = err
       ELSE /\ pc' = "error" /\ err' = "AttributeError"
            /\ UNCHANGED << attrs, force_vector, N, sigma >>
    /\ UNCHANGED << left_pos, right_pos, argVars, L, Li, angle,
                    stiffness_matrix, rotation_matrix_6x6, rotation_matrix_3x3,
                    others >>

Next ==
    \/ StoreArguments
    \/ StoreLength
    \/ StoreAngle
    \/ StoreStiffnessMatrix
    \/ StoreRotationMatrices
    \/ StoreForceVector

Spec == Init /\ [][Next]_vars


\* ----------------------------------------------- the Bar after construction
\* The operations of a constructed Bar: the external solver moves a node,
\* setBarNormalAndStress recovers L, sigma and N, the accessors read.  The
\* initial Bar is the one the assignments of lines 100-114 describe.
AllAttributes ==
    { "left_node", "right_node", "E", "A", "I", "L", "Li", "angle",
      "stiffness_matrix", "global_loads", "local_loads",
      "rotation_matrix_6x6", "rotation_matrix_3x3", "force_vector",
      "N", "sigma" }

RecoveryLeft == (0..1) \X {0}
RecoveryRight == (0..MaxReach) \X (0..MaxReach)

InitRecovery ==
    /\ pc = "ready" /\ err = "none"
    /\ left_pos \in RecoveryLeft /\ right_pos \in RecoveryRight
    /\ left_pos # right_pos
    /\ IntegerDistance(left_pos, right_pos)
    /\ E \in 1..MaxProp /\ A \in 1..MaxProp /\ I = MaxProp
    /\ loads = NoLoads
    /\ attrs = AllAttributes
    /\ L = calculateBarLength(left_pos, right_pos)
    /\ Li = calculateBarLength(left_pos, right_pos)
    /\ angle = getBarAngle(left_pos, right_pos)
    /\ stiffness_matrix = calculateStiffnessMatrix(E, A, I, L, angle)
    /\ rotation_matrix_6x6 = calculateRotationMatrix6(angle)
    /\ rotation_matrix_3x3 = calculateRotationMatrix3(angle)
    /\ force_vector = calculateForceVector(rotation_matrix_6x6)
    /\ N = Zero /\ sigma = Zero
    /\ op = "__init__" /\ ret = None
    /\ built_at = << left_pos, right_pos >>
    /\ recovered = FALSE
    /\ decomposed_q = << 0, 0 >> /\ total_q = << 0, 0 >>
    /\ local_vector = NoVector /\ self_vector = NoVector
    /\ rotated_force_vector = NoVector
    /\ n_elements = 1 /\ nodes = << >> /\ bars = << >> /\ i = 0

fixedVars == << pc, err, argVars, built_at, loadVars, discVars >>

\* the external solver writes a node's position (Node.position is mutable)
MoveLeftNode ==
    /\ pc = "ready"
    /\ \E p \in RecoveryLeft :
          /\ p # left_pos
          /\ IntegerDistance(p, right_pos)
          /\ left_pos' = p
    /\ op' = "moveNode" /\ ret' = None
    /\ UNCHANGED << right_pos, barVars, recovered, fixedVars >>

MoveRightNode ==
    /\ pc = "ready"
    /\ \E p \in RecoveryRight :
          /\ p # right_pos
          /\ IntegerDistance(left_pos, p)
          /\ right_pos' = p
    /\ op' = "moveNode" /\ ret' = None
    /\ UNCHANGED << left_pos, barVars, recovered, fixedVars >>

\* line 296: sigma = E * (L - Li) / Li
recoveredStress_reversed(E_, L_, Li_) == Frac(E_ * (Li_ - L_), Li_)
recoveredStress(E_, L_, Li_) == Frac(E_ * (L_ - Li_), Li_)

\* line 298: N = sigma * A
recoveredNormal(sig, A_) == Frac(sig[1] * A_, sig[2])

\* lines 295-298, with a slip: the reference length is refreshed as well
setBarNormalAndStress_refreshLi ==
    /\ pc = "ready"
    /\ L' = calculateBarLength(left_pos, right_pos)
    /\ Li' = calculateBarLength(left_pos, right_pos)
    /\ sigma' = recoveredStress(E, L', Li)
    /\ N' = recoveredNormal(sigma', A)
    /\ recovered' = TRUE
    /\ op' = "setBarNormalAndStress" /\ ret' = None
    /\ UNCHANGED << left_pos, right_pos, attrs, angle, stiffness_matrix,
                    rotation_matrix_6x6, rotation_matrix_3x3, force_vector,
                    fixedVars >>

\* lines 295-298
setBarNormalAndStress ==
    /\ pc = "ready"
    /\ L' = calculateBarLength(left_pos, right_pos)
    /\ sigma' = recoveredStress(E, L', Li)
    /\ N' = recoveredNormal(sigma', A)
    /\ recovered' = TRUE
    /\ op' = "setBarNormalAndStress" /\ ret' = None
    /\ UNCHANGED << left_pos, right_pos, attrs, Li, angle, stiffness_matrix,
                    rotation_matrix_6x6, rotation_matrix_3x3, force_vector,
                    fixedVars >>

\* line 120
getBarLength ==
    /\ pc = "ready"
    /\ op' = "getBarLength" /\ ret' = << "float", L >>
    /\ UNCHANGED << left_pos, right_pos, barVars, recovered, fixedVars >>

\* line 289
getStiffnessMatrix ==
    /\ pc = "ready"
    /\ op' = "getStiffnessMatrix" /\ ret' = << "ndarray", stiffness_matrix >>
    /\ UNCHANGED << left_pos, right_pos, barVars, recovered, fixedVars >>

\* line 307
getBarNormal ==
    /\ pc = "ready"
    /\ op' = "getBarNormal" /\ ret' = << "float", N >>
    /\ UNCHANGED << left_pos, right_pos, barVars, recovered, fixedVars >>

\* line 316
getBarStress ==
    /\ pc = "ready"
    /\ op' = "getBarStress" /\ ret' = << "float", sigma >>
    /\ UNCHANGED << left_pos, right_pos, barVars, recovered, fixedVars >>

NextRecovery ==
    \/ MoveLeftNode
    \/ MoveRightNode
    \/ setBarNormalAndStress
    \/ getBarLength
    \/ getStiffnessMatrix
    \/ getBarNormal
    \/ getBarStress

SpecRecovery == InitRecovery /\ [][NextRecovery]_vars


\* ------------------------------------- the arithmetic of the load vector
\* calculateForceVector (lines 225-251) taken step by step on a Bar with
\* constant load densities, the closures of lines 238-242 reading the four
\* densities that were passed to __init__.
LoadVals == -MaxLoad..MaxLoad

InitLoad ==
    /\ pc = "fv_238" /\ err = "none"
    /\ left_pos \in LeftPositions /\ right_pos \in RightPositions
    /\ left_pos # right_pos
    /\ IntegerDistance(left_pos, right_pos)
    /\ E = 1 /\ A = 1 /\ I = 1
    /\ loads \in [gx : LoadVals, gy : LoadVals, lx : LoadVals, ly : LoadVals]
    /\ attrs = AllAttributes \ {"force_vector", "N", "sigma"}
    /\ L = calculateBarLength(left_pos, right_pos)
    /\ Li = calculateBarLength(left_pos, right_pos)
    /\ angle = getBarAngle(left_pos, right_pos)
    /\ stiffness_matrix = calculateStiffnessMatrix(E, A, I, L, angle)
    /\ rotation_matrix_6x6 = calculateRotationMatrix6(angle)
    /\ rotation_matrix_3x3 = calculateRotationMatrix3(angle)
    /\ force_vector = NoVector /\ N = Zero /\ sigma = Zero
    /\ Idle

loadFixed == << err, attrs, left_pos, right_pos, argVars, L, Li, angle,
                stiffness_matrix, rotation_matrix_6x6, rotation_matrix_3x3,
                force_vector, N, sigma, op, ret, built_at, recovered,
                discVars >>

\* lines 238-239
DecomposeGlobalLoad ==
    /\ pc = "fv_238"
    /\ decomposed_q' = << decomposed_q_x(loads.gx, loads.gy, angle),
                          decomposed_q_y(loads.gx, loads.gy, angle) >>
    /\ pc' = "fv_241"
    /\ UNCHANGED << total_q, local_vector, self_vector, rotated_force_vector,
                    loadFixed >>

\* lines 241-242
AddLocalLoad ==
    /\ pc = "fv_241"
    /\ total_q' = << total_q_x(loads.lx, decomposed_q[1], angle),
                     total_q_y(loads.ly, decomposed_q[2], angle) >>
    /\ pc' = "fv_244"
    /\ UNCHANGED << decomposed_q, local_vector, self_vector,
                    rotated_force_vector, loadFixed >>

\* lines 244-249: the six integrals are written to self.force_vector; the
\* local array force_vector of line 225 keeps its zeros
IntegrateLoad ==
    /\ pc = "fv_244"
    /\ self_vector' = IntegratedLoads(total_q[1], total_q[2], L, angle)
    /\ pc' = "fv_251"
    /\ UNCHANGED << decomposed_q, total_q, local_vector, rotated_force_vector,
                    loadFixed >>

\* line 251: rotateTensor(self.rotation_matrix_6x6, force_vector)
RotateLoad ==
    /\ pc = "fv_251"
    /\ rotated_force_vector' = rotateTensor(rotation_matrix_6x6, local_vector)
    /\ pc' = "fv_done"
    /\ UNCHANGED << decomposed_q, total_q, local_vector, self_vector,
                    loadFixed >>

NextLoad ==
    \/ DecomposeGlobalLoad
    \/ AddLocalLoad
    \/ IntegrateLoad
    \/ RotateLoad

SpecLoad == InitLoad /\ [][NextLoad]_vars

\* ---------------------------------------------------------- discretizateBar
\* the parameters of Bar.__init__ after self (line 77), none has a default
BarParameters ==
    { "left_node", "right_node", "E", "A", "I",
      "global_q_x", "local_q_x", "global_q_y", "local_q_y" }

\* the keywords of the call at line 72
DiscretizerKeywords == { "left_node", "right_node", "q", "E", "A" }

\* Python binds a call by keyword only when every keyword names a parameter
\* and every parameter without a default is given; otherwise TypeError
CallBinds(keywords, parameters) ==
    keywords \subseteq parameters /\ parameters \subseteq keywords

\* Node(x, y, fx, fy, fixed_in_x, fixed_in_y) of line 67; the coordinates are
\* fractions
Node(x, y, fx, fy, fixed_in_x, fixed_in_y) ==
    [position |-> << x, y >>, fx |-> fx, fy |-> fy,
     fixed_in_x |-> fixed_in_x, fixed_in_y |-> fixed_in_y]

\* the node objects of lines 70-71: a boundary node or the k-th created node
LeftBoundary == << "left_node" >>
RightBoundary == << "right_node" >>
Created(k) == << "nodes", k >>

InitDiscretize ==
    /\ pc = "disc_66" /\ err = "none"
    /\ left_pos \in RecoveryLeft /\ right_pos \in RecoveryRight
    /\ left_pos # right_pos
    /\ E \in 1..MaxProp /\ A \in 1..MaxProp /\ I = 1
    /\ loads = NoLoads
    /\ Unbuilt
    /\ op = "none" /\ ret = None /\ built_at = << << 0, 0 >>, << 0, 0 >> >>
    /\ recovered = FALSE
    /\ decomposed_q = << 0, 0 >> /\ total_q = << 0, 0 >>
    /\ local_vector = NoVector /\ self_vector = NoVector
    /\ rotated_force_vector = NoVector
    /\ n_elements \in 1..MaxN
    /\ nodes = << >> /\ bars = << >> /\ i = 1

discFixed == << err, left_pos, right_pos, argVars, barVars, op, ret, built_at,
                recovered, loadVars, n_elements >>

\* lines 62-63 and 67: left + i*dx with dx = (right - left) / n_elements
Interpolated(lo, hi, k, n) == Frac(lo * n + k * (hi - lo), n)

\* lines 66-68, one iteration
CreateNode ==
    /\ pc = "disc_66" /\ i < n_elements
    /\ nodes' = Append(nodes,
                  Node(Interpolated(left_pos[1], right_pos[1], i, n_elements),
                       Interpolated(left_pos[2], right_pos[2], i, n_elements),
                       0, 0, FALSE, FALSE))
    /\ i' = i + 1
    /\ UNCHANGED << pc, bars, discFixed >>

\* range(1, n_elements) is exhausted; line 69 starts range(n_elements)
EnterBarLoop ==
    /\ pc = "disc_66" /\ i >= n_elements
    /\ pc' = "disc_69" /\ i' = 0
    /\ UNCHANGED << nodes, bars, discFixed >>

\* lines 69-74, one iteration: the call Bar(left_node=, right_node=, q=, E=,
\* A=) either binds and the bar is appended (after the last one the lists
\* are returned), or raises TypeError
CreateBar ==
    /\ pc = "disc_69" /\ i < n_elements
    /\ LET node_i == IF i = 0 THEN LeftBoundary ELSE Created(i)
           node_j == IF i = n_elements - 1 THEN RightBoundary ELSE Created(i + 1)
       IN  IF CallBinds(DiscretizerKeywords, BarParameters)
           THEN /\ bars' = Append(bars, [left_node |-> node_i, right_node |-> node_j])
                /\ i' = i + 1
                /\ pc' = IF i + 1 = n_elements THEN "done" ELSE pc
                /\ err' = err
           ELSE /\ pc' = "error" /\ err' = "TypeError"
                /\ UNCHANGED << bars, i >>
    /\ UNCHANGED << nodes, left_pos, right_pos, argVars, barVars, op, ret,
                    built_at, recovered, loadVars, n_elements >>

NextDiscretize ==
    \/ CreateNode
    \/ EnterBarLoop
    \/ CreateBar

SpecDiscretize == InitDiscretize /\ [][NextDiscretize]_vars

\* ------------------------------------------------ properties: construction
ValidInput == left_pos # right_pos /\ E > 0 /\ A > 0 /\ I > 0
Ended == pc \in {"done", "error"}
IsSymmetric(M) == \A r \in 1..6 : \A c \in 1..6 : M[r][c] = M[c][r]
IsIdentity(R, k) ==
    \A r \in 1..k : \A c \in 1..k : R.num[r][c] = (IF r = c THEN R.den ELSE 0)

\* C1: for two nodes at distinct positions and E, A, I > 0, __init__ runs to
\* its end without an error and leaves every attribute assigned: L, Li,
\* angle, stiffness_matrix, both rotation matrices and the 6-entry
\* force_vector, with N = sigma = 0.
C1_ConstructionCompletes ==
    (ValidInput /\ Ended) =>
        /\ pc = "done" /\ err = "none"
        /\ AllAttributes \subseteq attrs
        /\ Len(force_vector.num) = 6
        /\ N = Zero /\ sigma = Zero

\* C2: a Bar whose two nodes share a position is refused with a geometry
\* error before anything that depends on the length is computed: L = 0 is
\* never stored, no angle is derived and the stiffness matrix, which divides
\* by L, is never evaluated.
C2_ZeroLengthRefused ==
    (left_pos = right_pos) =>
        /\ attrs \cap {"L", "Li", "angle", "stiffness_matrix"} = {}
        /\ (Ended => err = "GeometryError")

\* C3: a non-positive E, A or I is rejected at construction: the constructor
\* ends in an error and no stiffness matrix is ever computed from it.
C3_BadPropertiesRejected ==
    (E <= 0 \/ A <= 0 \/ I <= 0) =>
        /\ "stiffness_matrix" \notin attrs
        /\ pc # "done"

\* C4: for distinct node positions the stored angle is atan2(dy, dx) of the
\* vector from the left node to the right node: its cosine has the sign of
\* dx and its sine has the sign of dy (dx = 0 gives +pi/2 or -pi/2 by the
\* sign of dy).
C4_AngleIsAtan2 ==
    ("angle" \in attrs /\ left_pos # right_pos) =>
        /\ Sign(angle.cx) = Sign(right_pos[1] - left_pos[1])
        /\ Sign(angle.sy) = Sign(right_pos[2] - left_pos[2])
        /\ angle.cx * angle.cx + angle.sy * angle.sy = angle.n * angle.n

\* C5: for a horizontal bar (dy = 0, dx > 0) with E, A, I > 0 the angle is 0,
\* both rotation matrices are the identity and the axial entries of the
\* stiffness matrix are K[0][0] = K[3][3] = E*A/L, K[0][3] = K[3][0] = -E*A/L.
C5_HorizontalBarIsLocal ==
    (ValidInput /\ right_pos[2] = left_pos[2] /\ right_pos[1] > left_pos[1]) =>
        /\ ("angle" \in attrs => angle = [cx |-> 1, sy |-> 0, n |-> 1])
        /\ ("rotation_matrix_6x6" \in attrs =>
                IsIdentity(rotation_matrix_6x6, 6) /\ IsIdentity(rotation_matrix_3x3, 3))
        /\ ("stiffness_matrix" \in attrs =>
              LET K == stiffness_matrix
              IN  /\ K.finite
                  /\ K.num[1][1] * L = E * A * K.den
                  /\ K.num[4][4] * L = E * A * K.den
                  /\ K.num[1][4] * L = -(E * A * K.den)
                  /\ K.num[4][1] * L = -(E * A * K.den))

\* C6: the stiffness matrix built by calculateStiffnessMatrix is symmetric:
\* the entry at (i, j) equals the entry at (j, i) for all i, j in 0..5.
C6_StiffnessSymmetric ==
    ("stiffness_matrix" \in attrs /\ stiffness_matrix.finite) =>
        IsSymmetric(stiffness_matrix.num)

\* an inclined bar with a bending-axial coupling: every entry is non-zero
C6_Witness ==
    /\ "stiffness_matrix" \in attrs /\ ValidInput
    /\ angle.cx # 0 /\ angle.sy # 0
    /\ stiffness_matrix.num[1][3] # 0 /\ stiffness_matrix.num[1][2] # 0

\* --------------------------------------------------- properties: recovery
\* C7: after construction the stiffness matrix, the load vector, the angle,
\* the rotation matrices and Li never change; L, N and sigma change only in
\* setBarNormalAndStress; N = sigma = 0 until the first recovery call; the
\* accessors return the stored values; no Bar operation moves a node.
C7_FrameStep ==
    /\ stiffness_matrix' = stiffness_matrix
    /\ force_vector' = force_vector
    /\ angle' = angle
    /\ rotation_matrix_6x6' = rotation_matrix_6x6
    /\ rotation_matrix_3x3' = rotation_matrix_3x3
    /\ Li' = Li
    /\ (<< L, N, sigma >> # << L', N', sigma' >> => op' = "setBarNormalAndStress")
    /\ (op' # "moveNode" => left_pos' = left_pos /\ right_pos' = right_pos)
    /\ (op' = "getBarLength" => ret' = << "float", L >>)
    /\ (op' = "getBarNormal" => ret' = << "float", N >>)
    /\ (op' = "getBarStress" => ret' = << "float", sigma >>)
    /\ (~recovered' => N' = Zero /\ sigma' = Zero /\ L' = Li')

\* C7: every step of a constructed Bar's life is such a step
C7_OnlyRecoveryMutates == [][C7_FrameStep]_vars

\* a node has moved since the last recovery call, and getBarLength still
\* returns the length recovered then
C7_Witness ==
    /\ recovered /\ op = "getBarLength"
    /\ << left_pos, right_pos >> # built_at
    /\ L # calculateBarLength(left_pos, right_pos)
    /\ ret = << "float", L >> /\ L # Li

Positive(f) == f[1] > 0 /\ f[2] > 0

\* C8: right after setBarNormalAndStress, L is the current distance between
\* the nodes, sigma = E*(L - Li)/Li and N = sigma*A; so a longer bar has
\* sigma > 0 and N > 0, a bar back at its construction positions has
\* sigma = 0 and N = 0.
C8_RecoveredValues ==
    (op = "setBarNormalAndStress") =>
        /\ L * L = (left_pos[1] - right_pos[1]) * (left_pos[1] - right_pos[1])
                 + (left_pos[2] - right_pos[2]) * (left_pos[2] - right_pos[2])
        /\ sigma[2] > 0 /\ N[2] > 0
        /\ sigma[1] * Li = E * (L - Li) * sigma[2]
        /\ N[1] * sigma[2] = sigma[1] * A * N[2]
        /\ (L > Li => Positive(sigma) /\ Positive(N))
        /\ (<< left_pos, right_pos >> = built_at => sigma = Zero /\ N = Zero)

\* C8, second part: a second call with the nodes where they were leaves
\* L, sigma and N as the first call set them
C8_IdempotentStep ==
    (op = "setBarNormalAndStress" /\ op' = "setBarNormalAndStress") =>
        << L', sigma', N' >> = << L, sigma, N >>

\* C8: the recovered values hold after every call, and a repeated call
\* changes nothing
C8_Recovery == [](C8_RecoveredValues) /\ [][C8_IdempotentStep]_vars

\* the right node was moved away from the left node, then recovery ran
C8_Witness ==
    /\ op = "setBarNormalAndStress"
    /\ left_pos = built_at[1] /\ right_pos # built_at[2]
    /\ L > Li /\ Positive(sigma) /\ Positive(N)


\* ------------------------------------------------ properties: discretizer
\* C9: for n >= 1 and two boundary nodes at distinct positions the
\* discretizer returns n-1 intermediate nodes and n Bars: node k lies at
\* left + k*(right - left)/n with zero force and no fixity, bar 0 starts at
\* the left boundary node, bar n-1 ends at the right boundary node and each
\* bar's right node is the next bar's left node.
C9_DiscretizerReturnsChain ==
    /\ pc # "error"
    /\ \A k \in 1..Len(nodes) :
          nodes[k] = Node(Interpolated(left_pos[1], right_pos[1], k, n_elements),
                          Interpolated(left_pos[2], right_pos[2], k, n_elements),
                          0, 0, FALSE, FALSE)
    /\ (pc = "done" =>
          /\ Len(nodes) = n_elements - 1
          /\ Len(bars) = n_elements
          /\ bars[1].left_node = LeftBoundary
          /\ bars[n_elements].right_node = RightBoundary
          /\ \A k \in 1..(n_elements - 1) : bars[k].right_node = bars[k + 1].left_node)

\* ------------------------------------------------ properties: load vector
\* C10: a distributed load given in global axes (gx, gy) is resolved into
\* the bar's axes as axial = gx*c + gy*s, transverse = -gx*s + gy*c, so that
\* the rotated load vector of a purely global load points the way the load
\* does: its x entries have the sign of gx and its y entries the sign of gy.
C10_GlobalLoadKeepsDirection ==
    /\ (pc \in {"fv_241", "fv_244", "fv_251", "fv_done"} =>
          /\ decomposed_q[1] = loads.gx * angle.cx + loads.gy * angle.sy
          /\ decomposed_q[2] = -(loads.gx * angle.sy) + loads.gy * angle.cx)
    /\ ((pc = "fv_done" /\ loads.lx = 0 /\ loads.ly = 0) =>
          /\ Sign(rotated_force_vector.num[1]) = Sign(loads.gx)
          /\ Sign(rotated_force_vector.num[2]) = Sign(loads.gy)
          /\ Sign(rotated_force_vector.num[4]) = Sign(loads.gx)
          /\ Sign(rotated_force_vector.num[5]) = Sign(loads.gy))

=============================================================================
